---- MODULE Spec2Model ----
(***************************************************************************)
(* Black hole simulation (src/simulation.js): the particle registry, the   *)
(* velocity Verlet integrator, the field model and the handlers that       *)
(* change them (mouse gesture, reset, toggles, resize, animation frame).   *)
(*                                                                         *)
(* JavaScript numbers are binary floating point.  They are modelled as     *)
(* binary floating point numbers too, with a mantissa of MantBits bits in  *)
(* place of 53, an unbounded exponent, and round-to-nearest-even after     *)
(* every operation: a number is [m |-> mantissa, e |-> exponent], of value *)
(* m * 2^e, with 2^(MantBits-1) <= |m| < 2^MantBits, or m = 0 and e = 0.   *)
(* Every arithmetic operation of the source is one operation of the model, *)
(* in the source's order of evaluation.  Infinities, NaN and the sign of   *)
(* zero are not modelled: no operation of the model overflows, and the one *)
(* division whose divisor may be zero is guarded in the source.            *)
(***************************************************************************)
EXTENDS Integers, Sequences, FiniteSets, TLC

\* ------------------------------------------------------------ bounds

\* width of the mantissa of a number
MantBits == 14

\* handler runs (events and animation frames) in a run of Spec
MaxSteps == 5

\* handler runs in a run of SpecFlight
MaxFlightSteps == 2

\* animation frames in a run of SpecTrace
MaxFrames == 1202

\* window sizes <<innerWidth, innerHeight>> the run draws from
Sizes == {<<400, 300>>, <<4000, 3000>>}

\* mouse positions <<clientX, clientY>> the run draws from: the centre of the
\* small window, a point 10 away from it, a point 100 away from it, and a
\* point only the large window holds
Points == {<<200, 150>>, <<210, 150>>, <<300, 150>>, <<3000, 2500>>}

\* ------------------------------------------------- floating point numbers

Abs(n) == IF n < 0 THEN -n ELSE n

Sgn(n) == IF n < 0 THEN -1 ELSE IF n > 0 THEN 1 ELSE 0

\* number of bits of 0 <= n < 16
BitLen4(n) == IF n < 4 THEN (IF n < 2 THEN n ELSE 2) ELSE (IF n < 8 THEN 3 ELSE 4)

\* number of bits of 0 <= n < 2^8
BitLen8(n) == IF n < 16 THEN BitLen4(n) ELSE 4 + BitLen4(n \div 16)

\* number of bits of 0 <= n < 2^16
BitLen16(n) == IF n < 256 THEN BitLen8(n) ELSE 8 + BitLen8(n \div 256)

\* number of bits of 0 <= n < 2^31
BitLen(n) == IF n < 65536 THEN BitLen16(n) ELSE 16 + BitLen16(n \div 65536)

FZero == [m |-> 0, e |-> 0]

\* a mantissa q after rounding, with exponent e: q = 2^MantBits is renormalised
FNorm(sign, q, e) ==
  IF q = 2^MantBits
  THEN [m |-> sign * 2^(MantBits - 1), e |-> e + 1]
  ELSE [m |-> sign * q, e |-> e]

\* a * 2^e for a > 0 of more than MantBits bits, dropping its k lowest bits:
\* to the nearest, ties to the even mantissa
FRoundDown(sign, a, e, k) ==
  IF (a % 2^k) > 2^(k - 1) \/ ((a % 2^k) = 2^(k - 1) /\ (a \div 2^k) % 2 = 1)
  THEN FNorm(sign, (a \div 2^k) + 1, e + k)
  ELSE FNorm(sign, a \div 2^k, e + k)

\* n * 2^e, for n # 0 of L bits
FRoundBits(n, e, L) ==
  IF L <= MantBits
  THEN [m |-> n * 2^(MantBits - L), e |-> e - (MantBits - L)]
  ELSE FRoundDown(Sgn(n), Abs(n), e, L - MantBits)

\* the number nearest to n * 2^e, ties to the even mantissa
FRound(n, e) == IF n = 0 THEN FZero ELSE FRoundBits(n, e, BitLen(Abs(n)))

\* an integer literal or integer-valued input as a number
FInt(n) == FRound(n, 0)

FNeg(a) == [m |-> -a.m, e |-> a.e]

\* hi + lo for hi.e >= lo.e, neither zero
FAddOrdered(hi, lo) ==
  IF hi.e - lo.e > MantBits + 1 THEN hi
  ELSE FRound(hi.m * 2^(hi.e - lo.e) + lo.m, lo.e)

\* a + b
FAdd(a, b) ==
  IF a.m = 0 THEN b
  ELSE IF b.m = 0 THEN a
  ELSE IF a.e >= b.e THEN FAddOrdered(a, b) ELSE FAddOrdered(b, a)

\* a - b
FSub(a, b) == FAdd(a, FNeg(b))

\* a * b
FMul(a, b) == FRound(a.m * b.m, a.e + b.e)

\* sign * num / den * 2^e for num, den > 0: the quotient with a sticky bit, rounded
FQuot(sign, num, den, e) ==
  FRound(sign * (2 * (num \div den) + (IF num % den # 0 THEN 1 ELSE 0)), e)

\* a / b, b # 0
FDiv(a, b) ==
  IF a.m = 0 THEN FZero
  ELSE FQuot(Sgn(a.m) * Sgn(b.m), Abs(a.m) * 2^(MantBits + 1), Abs(b.m),
             a.e - b.e - MantBits - 2)

RECURSIVE Newton(_, _)
\* the integer part of the square root of n > 0, from a guess x above it
Newton(n, x) ==
  IF (x + n \div x) \div 2 >= x THEN x ELSE Newton(n, (x + n \div x) \div 2)

RECURSIVE SqrtDigits(_, _, _)
\* k more binary digits of a square root, from its root and remainder so far
SqrtDigits(root, rem, k) ==
  IF k = 0 THEN <<root, rem>>
  ELSE IF 4 * rem >= 4 * root + 1
       THEN SqrtDigits(2 * root + 1, 4 * rem - (4 * root + 1), k - 1)
       ELSE SqrtDigits(2 * root, 4 * rem, k - 1)

\* a root and its remainder, with a sticky bit, times 2^e, rounded
FRootSticky(rr, e) == FRound(2 * rr[1] + (IF rr[2] # 0 THEN 1 ELSE 0), e)

\* the square root of m2 * 2^e2 for m2 > 0 and e2 even, from r0, the integer
\* part of the square root of m2
FSqrtFrom(m2, e2, r0) ==
  FRootSticky(SqrtDigits(r0, m2 - r0 * r0, MantBits + 1), (e2 \div 2) - MantBits - 2)

\* the square root of m2 * 2^e2 for m2 > 0 and e2 even
FSqrtEven(m2, e2) == FSqrtFrom(m2, e2, Newton(m2, 2^((MantBits + 2) \div 2)))

\* Math.sqrt(a), a >= 0
FSqrt(a) ==
  IF a.m = 0 THEN FZero
  ELSE IF a.e % 2 = 1 THEN FSqrtEven(2 * a.m, a.e - 1) ELSE FSqrtEven(a.m, a.e)

\* a < b
FLt(a, b) == FSub(a, b).m < 0

\* a > b
FGt(a, b) == FLt(b, a)

\* ------------------------------------------------------- program constants

G == 100

M == 1000

BH_RADIUS == 32

\* the longest trace kept (animate)
TRACE_MAX == 1200

\* the margin around the window past which a particle is dropped (animate)
MARGIN == 2000

\* the literal 0.1
dt == FDiv(FInt(1), FInt(10))

\* the literal 0.05 (mouseup)
vscale == FDiv(FInt(1), FInt(20))

\* the literal 0.5
Half == FRound(1, -1)

\* ------------------------------------------------------------------ state

VARIABLES
  innerWidth, innerHeight,   \* the window's size
  center,                    \* the black hole's position {x, y}
  traceOn, velocityOn, accelOn,
  particles,                 \* the registry: an array of particle objects
  dragging, dragStart, previewPos,
  particle,                  \* the global `particle` (an object reference)
  drawn,                     \* the particles handed to drawParticle by the last frame
  \* history
  ticks,                     \* animation frames run
  steps,                     \* handlers run: events and animation frames
  born,                      \* born[id]: the frames run when object id was created
  lastOp,                    \* the handler that ran last
  prevLen,                   \* the registry's length when that handler started
  stepped,                   \* the objects passed to stepVerlet by the last frame, in order
  swallowed                  \* the objects for which the swallow branch has run

progVars == <<innerWidth, innerHeight, center, traceOn, velocityOn, accelOn,
              particles, dragging, dragStart, previewPos, particle, drawn>>

histVars == <<ticks, steps, born, lastOp, prevLen, stepped, swallowed>>

vars == <<progVars, histVars>>

\* null / undefined
Null == "null"

\* an object reference: objects are numbered in the order of their creation
NextId == Len(born) + 1

Ids(ps) == {ps[i].id : i \in DOMAIN ps}

\* ------------------------------------------------------------ field model

\* the product G * M
GM == FMul(FInt(G), FInt(M))

\* the result of acceleration for r # 0, from dx, dy, r and aMag
\* a field of the same magnitude directed away from the center
accelVectorOutward(dx, dy, r, aMag) ==
  [ax |-> FMul(aMag, FDiv(dx, r)),
   ay |-> FMul(aMag, FDiv(dy, r)),
   r  |-> r]

accelVector(dx, dy, r, aMag) ==
  [ax |-> FMul(FNeg(aMag), FDiv(dx, r)),
   ay |-> FMul(FNeg(aMag), FDiv(dy, r)),
   r  |-> r]

\* the result of acceleration from dx, dy and r
accelAtDistance(dx, dy, r) ==
  IF r = FZero
  THEN [ax |-> FZero, ay |-> FZero, r |-> FZero]
  ELSE accelVector(dx, dy, r, FDiv(GM, FMul(r, r)))

\* the result of acceleration from dx and dy
accelFrom(dx, dy) ==
  accelAtDistance(dx, dy, FSqrt(FAdd(FMul(dx, dx), FMul(dy, dy))))

\* acceleration(p) with the center passed explicitly
accelerationAt(p, c) == accelFrom(FSub(p.x, c.x), FSub(p.y, c.y))

acceleration(p) == accelerationAt(p, center)

\* ------------------------------------------------------------- integrator

\* stepVerlet, first half: a0 stored on p and the position advanced
stepPosition(p, h, a0) ==
  [p EXCEPT
     !.ax = a0.ax,
     !.ay = a0.ay,
     !.x = FAdd(p.x, FAdd(FMul(p.vx, h), FMul(FMul(FMul(Half, a0.ax), h), h))),
     !.y = FAdd(p.y, FAdd(FMul(p.vy, h), FMul(FMul(FMul(Half, a0.ay), h), h)))]

\* stepVerlet, second half: the velocity advanced, a1 stored on p, a1.r returned
\* a second half that leaves the acceleration of the old position on p
stepVelocityStale(p, h, a1) ==
  [p |-> [p EXCEPT
            !.vx = FAdd(p.vx, FMul(FMul(Half, FAdd(p.ax, a1.ax)), h)),
            !.vy = FAdd(p.vy, FMul(FMul(Half, FAdd(p.ay, a1.ay)), h))],
   r |-> a1.r]

stepVelocity(p, h, a1) ==
  [p |-> [p EXCEPT
            !.vx = FAdd(p.vx, FMul(FMul(Half, FAdd(p.ax, a1.ax)), h)),
            !.vy = FAdd(p.vy, FMul(FMul(Half, FAdd(p.ay, a1.ay)), h)),
            !.ax = a1.ax,
            !.ay = a1.ay],
   r |-> a1.r]

\* stepVerlet from the particle as moved: a1 is the field at the new position
stepMoved(p1, h, c) == stepVelocity(p1, h, accelerationAt(p1, c))

\* stepVerlet(p, h) with the center passed explicitly: the particle as the
\* call leaves it, and the value returned
stepVerletAt(p, h, c) == stepMoved(stepPosition(p, h, accelerationAt(p, c)), h, c)

stepVerlet(p, h) == stepVerletAt(p, h, center)

\* ---------------------------------------------------------------- arrays

\* Array.prototype.indexOf for an object: the 0-based index of the object, or -1
IndexOf(ps, id) ==
  IF \E i \in DOMAIN ps : ps[i].id = id
  THEN (CHOOSE i \in DOMAIN ps : ps[i].id = id /\ \A j \in 1..(i - 1) : ps[j].id # id) - 1
  ELSE -1

\* where splice starts for a start given relative to an array of length n
SpliceStart(n, start) ==
  IF start < 0 THEN (IF n + start < 0 THEN 0 ELSE n + start)
  ELSE (IF start > n THEN n ELSE start)

\* the array without the element at 0-based index s, if it has one
RemoveAt(ps, s) ==
  IF s >= Len(ps) THEN ps
  ELSE [i \in 1..(Len(ps) - 1) |-> IF i <= s THEN ps[i] ELSE ps[i + 1]]

\* Array.prototype.splice(start, 1): a negative start counts from the end
Splice(ps, start) == RemoveAt(ps, SpliceStart(Len(ps), start))

\* ------------------------------------------------------------------ frame

\* the trace after the shift, if it is too long
shiftTrace(tr) == IF Len(tr) > TRACE_MAX THEN Tail(tr) ELSE tr

\* particle.trace.push(...); if (particle.trace.length > 1200) particle.trace.shift()
pushTrace(tr, pt) == shiftTrace(Append(tr, pt))

\* r < BH_RADIUS
isSwallowed(r) == FLt(r, FInt(BH_RADIUS))

\* the offscreen test of animate
isOffscreen(p, w, h) ==
  \/ FLt(p.x, FInt(-MARGIN))
  \/ FGt(p.x, FInt(w + MARGIN))
  \/ FLt(p.y, FInt(-MARGIN))
  \/ FGt(p.y, FInt(h + MARGIN))

\* particles.splice(particles.indexOf(particle), 1)
\* a removal that splices one index too far
removeParticleNext(ps, id) == Splice(ps, IndexOf(ps, id) + 1)

removeParticle(ps, id) == Splice(ps, IndexOf(ps, id))

\* the second removal of the loop body: if the particle is offscreen
removeOffscreen(ps, q, sw) ==
  [ps |-> IF isOffscreen(q, innerWidth, innerHeight) THEN removeParticle(ps, q.id) ELSE ps,
   id |-> q.id,
   sw |-> sw]

\* the first removal of the loop body: if the particle is swallowed
\* a removal of the swallowed particle that drops the last element instead
removeSwallowedLast(ps, q, sw) ==
  removeOffscreen(IF sw THEN Splice(ps, -1) ELSE ps, q, sw)

removeSwallowed(ps, q, sw) ==
  removeOffscreen(IF sw THEN removeParticle(ps, q.id) ELSE ps, q, sw)

\* the loop body after the step: the object at index i is now q, with its
\* trace recorded, and r is what stepVerlet returned
afterStep(ps, i, q, r) == removeSwallowed([ps EXCEPT ![i + 1] = q], q, isSwallowed(r))

\* the particle after the step, with its position recorded in its trace
recordTrace(q) == [q EXCEPT !.trace = pushTrace(@, [x |-> q.x, y |-> q.y])]

\* the loop body from the result of stepVerlet
afterVerlet(ps, i, res) == afterStep(ps, i, recordTrace(res.p), res.r)

\* the body of the update loop for the element at 0-based index i of the
\* array: the array it leaves, the object it handled, and whether the
\* swallow branch ran
loopBody(ps, i) == afterVerlet(ps, i, stepVerlet(ps[i + 1], dt))

RECURSIVE updateLoop(_, _, _, _)
\* the loop from the body's result for index i
loopNext(b, i, st, sw) ==
  updateLoop(b.ps, i + 1, Append(st, b.id), IF b.sw THEN sw \cup {b.id} ELSE sw)

\* for (const particle of particles) { ... }: the array iterator reads index
\* i of the live array until i reaches its length
updateLoop(ps, i, st, sw) ==
  IF i >= Len(ps) THEN [ps |-> ps, stepped |-> st, swallowed |-> sw]
  ELSE loopNext(loopBody(ps, i), i, st, sw)

\* the frame once the update loop has left u: the draw loop runs
drawFrame(u) ==
  /\ particles' = u.ps
  /\ stepped'   = u.stepped
  /\ swallowed' = u.swallowed
  /\ drawn'     = [i \in DOMAIN u.ps |-> u.ps[i].id]
  /\ particle'  = IF Len(u.ps) > 0 THEN u.ps[Len(u.ps)].id ELSE particle

animate ==
  /\ drawFrame(updateLoop(particles, 0, <<>>, swallowed))
  /\ ticks'   = ticks + 1
  /\ lastOp'  = "animate"
  /\ prevLen' = Len(particles)
  /\ UNCHANGED <<innerWidth, innerHeight, center, traceOn, velocityOn, accelOn,
                 dragging, dragStart, previewPos, born>>

\* --------------------------------------------------------------- handlers

InWindow(pt) == pt[1] <= innerWidth /\ pt[2] <= innerHeight

mousedown(pt) ==
  /\ InWindow(pt)
  /\ dragging'   = TRUE
  /\ dragStart'  = [x |-> FInt(pt[1]), y |-> FInt(pt[2])]
  /\ previewPos' = [x |-> FInt(pt[1]), y |-> FInt(pt[2])]
  /\ lastOp'  = "mousedown"
  /\ prevLen' = Len(particles)
  /\ UNCHANGED <<innerWidth, innerHeight, center, traceOn, velocityOn, accelOn,
                 particles, particle, drawn, ticks, born, stepped, swallowed>>

mousemove(pt) ==
  /\ InWindow(pt)
  /\ previewPos' = IF dragging THEN [x |-> FInt(pt[1]), y |-> FInt(pt[2])] ELSE previewPos
  /\ lastOp'  = "mousemove"
  /\ prevLen' = Len(particles)
  /\ UNCHANGED <<innerWidth, innerHeight, center, traceOn, velocityOn, accelOn,
                 particles, dragging, dragStart, particle, drawn, ticks, born,
                 stepped, swallowed>>

\* the object the mouseup handler creates
\* a launch with the velocity taken from end to start
newParticleReversed(id, start, end) ==
  [id |-> id,
   x  |-> start.x,
   y  |-> start.y,
   vx |-> FMul(FSub(start.x, end.x), vscale),
   vy |-> FMul(FSub(start.y, end.y), vscale),
   ax |-> FZero,
   ay |-> FZero,
   trace |-> <<>>]

newParticle(id, start, end) ==
  [id |-> id,
   x  |-> start.x,
   y  |-> start.y,
   vx |-> FMul(FSub(end.x, start.x), vscale),
   vy |-> FMul(FSub(end.y, start.y), vscale),
   ax |-> FZero,
   ay |-> FZero,
   trace |-> <<>>]

\* mouseup while dragging: the launch
mouseupLaunch(pt) ==
  /\ dragging
  /\ InWindow(pt)
  /\ dragging' = FALSE
  /\ particle'  = NextId
  /\ particles' = Append(particles,
                         newParticle(NextId, dragStart, [x |-> FInt(pt[1]), y |-> FInt(pt[2])]))
  /\ born'    = Append(born, ticks)
  /\ lastOp'  = "mouseup"
  /\ prevLen' = Len(particles)
  /\ UNCHANGED <<innerWidth, innerHeight, center, traceOn, velocityOn, accelOn,
                 dragStart, previewPos, drawn, ticks, stepped, swallowed>>

\* mouseup while not dragging: the early return
mouseupIdle(pt) ==
  /\ ~dragging
  /\ InWindow(pt)
  /\ lastOp'  = "mouseup"
  /\ prevLen' = Len(particles)
  /\ UNCHANGED <<progVars, ticks, born, stepped, swallowed>>

mouseup(pt) == mouseupLaunch(pt) \/ mouseupIdle(pt)

\* a reset that also ends the drag in progress
resetDropsDrag ==
  /\ particles' = <<>>
  /\ dragging' = FALSE
  /\ lastOp'  = "reset"
  /\ prevLen' = Len(particles)
  /\ UNCHANGED <<innerWidth, innerHeight, center, traceOn, velocityOn, accelOn,
                 dragStart, previewPos, particle, drawn, ticks, born,
                 stepped, swallowed>>

resetParticle ==
  /\ particles' = <<>>
  /\ lastOp'  = "reset"
  /\ prevLen' = Len(particles)
  /\ UNCHANGED <<innerWidth, innerHeight, center, traceOn, velocityOn, accelOn,
                 dragging, dragStart, previewPos, particle, drawn, ticks, born,
                 stepped, swallowed>>

toggleTrace ==
  /\ traceOn' = ~traceOn
  /\ lastOp'  = "toggleTrace"
  /\ prevLen' = Len(particles)
  /\ UNCHANGED <<innerWidth, innerHeight, center, velocityOn, accelOn, particles,
                 dragging, dragStart, previewPos, particle, drawn, ticks, born,
                 stepped, swallowed>>

toggleVelocity ==
  /\ velocityOn' = ~velocityOn
  /\ lastOp'  = "toggleVelocity"
  /\ prevLen' = Len(particles)
  /\ UNCHANGED <<innerWidth, innerHeight, center, traceOn, accelOn, particles,
                 dragging, dragStart, previewPos, particle, drawn, ticks, born,
                 stepped, swallowed>>

toggleAcceleration ==
  /\ accelOn' = ~accelOn
  /\ lastOp'  = "toggleAcceleration"
  /\ prevLen' = Len(particles)
  /\ UNCHANGED <<innerWidth, innerHeight, center, traceOn, velocityOn, particles,
                 dragging, dragStart, previewPos, particle, drawn, ticks, born,
                 stepped, swallowed>>

\* the center of a window of size sz
centerOf(sz) == [x |-> FDiv(FInt(sz[1]), FInt(2)), y |-> FDiv(FInt(sz[2]), FInt(2))]

\* the window is resized to sz and the resize handler runs
resize(sz) ==
  /\ sz # <<innerWidth, innerHeight>>
  /\ innerWidth'  = sz[1]
  /\ innerHeight' = sz[2]
  /\ center' = centerOf(sz)
  /\ lastOp'  = "resize"
  /\ prevLen' = Len(particles)
  /\ UNCHANGED <<traceOn, velocityOn, accelOn, particles, dragging, dragStart,
                 previewPos, particle, drawn, ticks, born, stepped, swallowed>>

\* ---------------------------------------------------------- specification

\* the state once the script has run, in a window of size sz
InitIn(sz) ==
  /\ innerWidth = sz[1]
  /\ innerHeight = sz[2]
  /\ center = centerOf(sz)
  /\ traceOn = TRUE
  /\ velocityOn = FALSE
  /\ accelOn = FALSE
  /\ particles = <<>>
  /\ dragging = FALSE
  /\ dragStart = Null
  /\ previewPos = Null
  /\ particle = Null
  /\ drawn = <<>>
  /\ ticks = 0
  /\ steps = 0
  /\ born = <<>>
  /\ lastOp = "init"
  /\ prevLen = 0
  /\ stepped = <<>>
  /\ swallowed = {}

Init == \E sz \in Sizes : InitIn(sz)

\* one more handler runs, of at most n in the run
Bounded(n) == steps < n /\ steps' = steps + 1

Next ==
  \/ \E pt \in Points : Bounded(MaxSteps) /\ mousedown(pt)
  \/ \E pt \in Points : Bounded(MaxSteps) /\ mousemove(pt)
  \/ \E pt \in Points : Bounded(MaxSteps) /\ mouseupLaunch(pt)
  \/ \E pt \in Points : Bounded(MaxSteps) /\ mouseupIdle(pt)
  \/ Bounded(MaxSteps) /\ resetParticle
  \/ Bounded(MaxSteps) /\ toggleTrace
  \/ Bounded(MaxSteps) /\ toggleVelocity
  \/ Bounded(MaxSteps) /\ toggleAcceleration
  \/ \E sz \in Sizes : Bounded(MaxSteps) /\ resize(sz)
  \/ Bounded(MaxSteps) /\ animate

Spec == Init /\ [][Next]_vars

\* ------------------------------------------------- a registry already filled

\* a mouse position as the handlers store it
pointOf(pt) == [x |-> FInt(pt[1]), y |-> FInt(pt[2])]

RECURSIVE launchAll(_, _)
\* the registry after the drag gestures gs, each <<start, end>>, added to ps
launchAll(gs, ps) ==
  IF gs = <<>> THEN ps
  ELSE launchAll(Tail(gs),
                 Append(ps, newParticle(Len(ps) + 1, pointOf(gs[1][1]), pointOf(gs[1][2]))))

\* the state after the drag gestures gs (one at least) in a window of size
\* sz, before any frame
InitAfter(sz, gs) ==
  /\ innerWidth = sz[1]
  /\ innerHeight = sz[2]
  /\ center = centerOf(sz)
  /\ traceOn = TRUE
  /\ velocityOn = FALSE
  /\ accelOn = FALSE
  /\ particles = launchAll(gs, <<>>)
  /\ dragging = FALSE
  /\ dragStart = pointOf(gs[Len(gs)][1])
  /\ previewPos = pointOf(gs[Len(gs)][1])
  /\ particle = Len(gs)
  /\ drawn = <<>>
  /\ ticks = 0
  /\ steps = 0
  /\ born = [i \in 1..Len(gs) |-> 0]
  /\ lastOp = "mouseup"
  /\ prevLen = Len(gs) - 1
  /\ stepped = <<>>
  /\ swallowed = {}

\* the drag gestures of the short runs: one drag between any two points, or
\* two particles left at rest at any two points
FlightGestures ==
  {<<<<a, b>>>> : a \in Points, b \in Points}
    \cup {<<<<a, a>>, <<b, b>>>> : a \in Points, b \in Points}

\* every gesture was made inside the window
InitFlight ==
  \E sz \in Sizes : \E gs \in FlightGestures :
    /\ InitAfter(sz, gs)
    /\ \A k \in DOMAIN gs : InWindow(gs[k][1]) /\ InWindow(gs[k][2])

\* the launches, the resizes and the frames alone
NextFlight ==
  \/ \E pt \in Points : Bounded(MaxFlightSteps) /\ mousedown(pt)
  \/ \E pt \in Points : Bounded(MaxFlightSteps) /\ mouseupLaunch(pt)
  \/ \E sz \in Sizes : Bounded(MaxFlightSteps) /\ resize(sz)
  \/ Bounded(MaxFlightSteps) /\ animate

SpecFlight == InitFlight /\ [][NextFlight]_vars

\* the drag gestures of the long runs: across the large window in both
\* directions, and a particle left at rest
Crossing == <<<<200, 150>>, <<3000, 2500>>>>

CrossingBack == <<<<3000, 2500>>, <<200, 150>>>>

AtRest == <<<<300, 150>>, <<300, 150>>>>

TraceGestures ==
  {<<AtRest>>, <<Crossing, AtRest>>, <<CrossingBack, AtRest>>,
   <<Crossing, CrossingBack, AtRest>>, <<CrossingBack, Crossing, AtRest>>}

InitTrace == \E gs \in TraceGestures : InitAfter(<<4000, 3000>>, gs)

NextTrace == Bounded(MaxFrames) /\ animate

SpecTrace == InitTrace /\ [][NextTrace]_vars

\* ------------------------------------------------------------- properties

IdsOf(seq) == {seq[i] : i \in DOMAIN seq}

Occurrences(seq, v) == Cardinality({i \in DOMAIN seq : seq[i] = v})

\* the particle of the registry ps that is object id
ParticleOf(ps, id) == ps[CHOOSE i \in DOMAIN ps : ps[i].id = id]

\* the toggles, the window and its center, and the state of the drag
uiVars == <<traceOn, velocityOn, accelOn, innerWidth, innerHeight, center,
            dragging, dragStart, previewPos>>

\* C1: in every frame, each particle in the registry when the frame starts is
\* passed to the integrator exactly once, and the trace of each one that
\* stays in the registry has grown by exactly its new position.
EveryParticleSteppedOnce ==
  [][lastOp' = "animate" =>
       /\ \A i \in DOMAIN particles : Occurrences(stepped', particles[i].id) = 1
       /\ \A j \in DOMAIN particles' :
            particles'[j].trace =
              pushTrace(ParticleOf(particles, particles'[j].id).trace,
                        [x |-> particles'[j].x, y |-> particles'[j].y])]_vars

\* C2: a particle for which the integrator returned a distance below
\* BH_RADIUS is neither in the registry nor among the particles drawn from
\* the end of that frame on, whatever follows; after a frame, no particle
\* that was stepped in it and is still in the registry lies within BH_RADIUS.
SwallowedStayGone ==
  /\ \A id \in swallowed : id \notin Ids(particles) /\ id \notin IdsOf(drawn)
  /\ lastOp = "animate" =>
       \A i \in DOMAIN particles :
         particles[i].id \in IdsOf(stepped) => ~isSwallowed(acceleration(particles[i]).r)

\* C2, reached: a particle has been swallowed, and a later launch has put a
\* new particle in the registry.
SwallowedThenLaunched ==
  /\ swallowed # {}
  /\ lastOp = "mouseup"
  /\ Len(particles) = prevLen + 1

\* C3: once a frame has run, no particle of the registry lies outside the
\* window extended by MARGIN on each side.
NoOffscreenAfterFrame ==
  lastOp = "animate" =>
    \A i \in DOMAIN particles : ~isOffscreen(particles[i], innerWidth, innerHeight)

\* C4: a trace never holds more than TRACE_MAX points, and the trace of a
\* particle created more than TRACE_MAX frames ago holds exactly TRACE_MAX.
TraceHoldsLastFrames ==
  \A i \in DOMAIN particles :
    /\ Len(particles[i].trace) <= TRACE_MAX
    /\ ticks - born[particles[i].id] > TRACE_MAX => Len(particles[i].trace) = TRACE_MAX

\* C5: a particle created at distance 10 from the center is out of the
\* registry after the first frame that follows its creation.
SpawnedInsideIsRemoved ==
  [][lastOp' = "animate" =>
       \A i \in DOMAIN particles :
         (born[particles[i].id] = ticks /\ acceleration(particles[i]).r = FInt(10))
           => particles[i].id \notin Ids(particles')]_vars

\* C6: a reset empties the registry and leaves the toggles, the center and
\* the drag state as they were; a frame on the empty registry leaves it empty
\* and steps, draws and changes nothing; the empty registry stays empty
\* until a mouseup ends a drag.
ResetEmptiesRegistry ==
  [][/\ lastOp' = "reset" => particles' = <<>> /\ UNCHANGED uiVars
     /\ (lastOp' = "animate" /\ particles = <<>>) =>
          /\ particles' = <<>>
          /\ stepped' = <<>>
          /\ drawn' = <<>>
          /\ UNCHANGED <<uiVars, particle, swallowed>>
     /\ (particles = <<>> /\ particles' # <<>>) =>
          lastOp' = "mouseup" /\ dragging /\ ~dragging']_vars

\* C6, reached: a particle was launched, the registry was emptied before any
\* frame ran (by a reset: only a reset or a frame removes particles), and the
\* first frame then ran on the empty registry.
FrameAfterReset ==
  /\ lastOp = "animate"
  /\ ticks = 1
  /\ born # <<>>
  /\ prevLen = 0
  /\ particles = <<>>

\* C7: a mouseup that ends a drag appends exactly one particle, at the start
\* of the drag, with velocity (end - start) * 0.05, no acceleration and an
\* empty trace, and leaves the particles before it as they were; a mouseup
\* outside a drag and a mousemove leave the registry as it was.
LaunchAddsOneParticle ==
  [][/\ (lastOp' = "mouseup" /\ dragging) =>
          \E pt \in Points :
            particles' = Append(particles,
              [id |-> NextId,
               x  |-> dragStart.x,
               y  |-> dragStart.y,
               vx |-> FMul(FSub(FInt(pt[1]), dragStart.x), vscale),
               vy |-> FMul(FSub(FInt(pt[2]), dragStart.y), vscale),
               ax |-> FZero,
               ay |-> FZero,
               trace |-> <<>>])
     /\ (lastOp' = "mouseup" /\ ~dragging) => particles' = particles
     /\ lastOp' = "mousemove" => particles' = particles]_vars

\* C7, reached: a drag has ended in a registry that held a particle, and the
\* particle it added moves.
LaunchedSecondParticle ==
  /\ lastOp = "mouseup"
  /\ prevLen >= 1
  /\ Len(particles) = prevLen + 1
  /\ particles[Len(particles)].vx # FZero

\* a, the field at p, is zero at the center, and elsewhere not zero, with
\* each component of the sign opposite to that of p - center
InwardAt(p, c, a) ==
  IF p.x = c.x /\ p.y = c.y
  THEN a = [ax |-> FZero, ay |-> FZero, r |-> FZero]
  ELSE /\ a.r.m > 0
       /\ a.ax # FZero \/ a.ay # FZero
       /\ Sgn(a.ax.m) = -Sgn(FSub(p.x, c.x).m)
       /\ Sgn(a.ay.m) = -Sgn(FSub(p.y, c.y).m)

PointsInward(p, c) == InwardAt(p, c, accelerationAt(p, c))

\* C8: for every particle of the registry, and the point where the drag in
\* progress started, acceleration returns (0, 0, 0) at the center and elsewhere a
\* non-zero vector whose components have the signs opposite to p - center.
FieldPointsInward ==
  /\ \A i \in DOMAIN particles : PointsInward(particles[i], center)
  /\ dragging => PointsInward(dragStart, center)

\* C8, reached: a frame has stepped a particle to a place that is not the
\* center, where the field it stored is not zero, and the drag in progress
\* started at the center.
FieldAtCenterAndAway ==
  /\ dragging
  /\ dragStart = center
  /\ \E i \in DOMAIN particles :
       /\ particles[i].trace # <<>>
       /\ particles[i].x # center.x
       /\ particles[i].ax # FZero

\* C9: a frame removes from the registry only particles that, after their
\* step, are swallowed or offscreen; every other particle is still in the
\* registry when the frame ends, once.
OnlyRemovableRemoved ==
  [][lastOp' = "animate" =>
       \A i \in DOMAIN particles :
         \/ Cardinality({j \in DOMAIN particles' : particles'[j].id = particles[i].id}) = 1
         \/ /\ particles[i].id \notin Ids(particles')
            /\ \/ isSwallowed(stepVerlet(particles[i], dt).r)
               \/ isOffscreen(stepVerlet(particles[i], dt).p, innerWidth, innerHeight)]_vars

\* C9, reached: a frame has stepped two particles, removed one and kept the
\* other.
FrameRemovedOneOfTwo ==
  /\ lastOp = "animate"
  /\ prevLen = 2
  /\ Len(stepped) = 2
  /\ Len(particles) = 1

\* res is stepVerlet on p, a0 the field at p and a1 the field at the place
\* where res leaves the particle: what res stores and returns is a1; the
\* position has moved by a0 alone, the velocity by the mean of a0 and a1
StepMatches(p, h, a0, a1, res) ==
  /\ res.r = a1.r
  /\ res.p.ax = a1.ax
  /\ res.p.ay = a1.ay
  /\ res.p.x = FAdd(p.x, FAdd(FMul(p.vx, h), FMul(FMul(FMul(Half, a0.ax), h), h)))
  /\ res.p.y = FAdd(p.y, FAdd(FMul(p.vy, h), FMul(FMul(FMul(Half, a0.ay), h), h)))
  /\ res.p.vx = FAdd(p.vx, FMul(FMul(Half, FAdd(a0.ax, a1.ax)), h))
  /\ res.p.vy = FAdd(p.vy, FMul(FMul(Half, FAdd(a0.ay, a1.ay)), h))

StepResultMatches(p, h, c, res) ==
  StepMatches(p, h, accelerationAt(p, c), accelerationAt(res.p, c), res)

StepIsVerlet(p, h, c) == StepResultMatches(p, h, c, stepVerletAt(p, h, c))

\* C10: for every particle of the registry, stepVerlet stores the field at
\* the updated position and returns the distance of the updated position
\* from the center, moves the position by a0 alone and the velocity by the
\* mean of a0 and a1; and after a frame, the acceleration stored on each
\* particle it stepped is the field at the particle's position.
StepStoresNewField ==
  /\ \A i \in DOMAIN particles : StepIsVerlet(particles[i], dt, center)
  /\ lastOp = "animate" =>
       \A i \in DOMAIN particles :
         particles[i].id \in IdsOf(stepped) =>
           /\ particles[i].ax = acceleration(particles[i]).ax
           /\ particles[i].ay = acceleration(particles[i]).ay

\* C10, reached: a frame has stepped a particle that is still in the
\* registry, and the field where it now is, is not zero.
SteppedParticleKept ==
  /\ lastOp = "animate"
  /\ \E i \in DOMAIN particles :
       /\ particles[i].id \in IdsOf(stepped)
       /\ particles[i].ax # FZero
       /\ particles[i].vx # FZero

====
